---- MODULE Spec2Model ----
(***************************************************************************)
(* A model of validate_vtk.py: the validator validate_vtk_file, a pure     *)
(* function of a path and of what the file system holds at it, and the     *)
(* command-line driver main.  File contents and messages are strings, and  *)
(* the string operations of the source (startswith, strip, in, slicing,    *)
(* readlines, f-strings) are computed character by character.              *)
(***************************************************************************)
EXTENDS Integers, Sequences, FiniteSets, TLC

VARIABLES
    filepath,      \* validate_vtk_file: its argument
    file,          \* what the file system holds at filepath
    pc,            \* "call", then "returned" or "raised" ("idle" under SpecMain)
    errors,        \* the first list of the returned pair
    warnings,      \* the second list of the returned pair
    sys_argv,      \* main: sys.argv, the program name first
    fs,            \* main: the file system, path -> file
    mpc,           \* main: "start", "loop", "summary", "exit", "crashed"
    k,             \* main: number of paths of sys.argv[1:] consumed by the loop
    total_errors,  \* main: the local total_errors
    out,           \* main: the lines printed to standard output
    exit_status,   \* main: the process exit status (-1 while running)
    calls          \* main: the paths validate_vtk_file was called with

vars == <<filepath, file, pc, errors, warnings,
          sys_argv, fs, mpc, k, total_errors, out, exit_status, calls>>

valVars == <<filepath, file, pc, errors, warnings>>
mainVars == <<sys_argv, fs, mpc, k, total_errors, out, exit_status, calls>>

----------------------------------------------------------------------------
(* Bounds of the model and constants of the program.                       *)

MaxLines == 3
MaxArgs == 2

WindowLen == 20
ExcerptLen == 50

----------------------------------------------------------------------------
(* Python's string operations.                                             *)

Min(a, b) == IF a < b THEN a ELSE b

\* str.startswith(p)
StartsWith(s, p) == Len(s) >= Len(p) /\ SubSeq(s, 1, Len(p)) = p

\* p in s
Contains(s, p) ==
    \E j \in 1..(Len(s) - Len(p) + 1) : SubSeq(s, j, j + Len(p) - 1) = p

\* s[:n]
Prefix(s, n) == SubSeq(s, 1, Min(n, Len(s)))

\* the characters str.strip() removes, among those the modelled files hold
Whitespace == {" ", "\t", "\n"}

RECURSIVE LStrip(_)
LStrip(s) ==
    IF Len(s) > 0 /\ Head(s) \in Whitespace THEN LStrip(Tail(s)) ELSE s

RECURSIVE RStrip(_)
RStrip(s) ==
    IF Len(s) > 0 /\ SubSeq(s, Len(s), Len(s)) \in Whitespace
    THEN RStrip(SubSeq(s, 1, Len(s) - 1))
    ELSE s

\* str.strip()
Strip(s) == RStrip(LStrip(s))

\* lines[i] for a Python list: 0-based, a negative index counts from the end
PyGet(ls, i) == IF i < 0 THEN ls[Len(ls) + i + 1] ELSE ls[i + 1]

\* the 1-based position of the first "\n" of s at or after j; 0 if none
RECURSIVE NewlineAt(_, _)
NewlineAt(s, j) ==
    IF j > Len(s) THEN 0
    ELSE IF SubSeq(s, j, j) = "\n" THEN j
    ELSE NewlineAt(s, j + 1)

\* f.readlines(): the content cut after every "\n", the terminators kept
RECURSIVE Readlines(_)
Readlines(content) ==
    IF Len(content) = 0 THEN <<>>
    ELSE LET j == NewlineAt(content, 1)
         IN  IF j = 0 THEN <<content>>
             ELSE <<SubSeq(content, 1, j)>>
                      \o Readlines(SubSeq(content, j + 1, Len(content)))

----------------------------------------------------------------------------
(* validate_vtk_file                                                       *)

FileNotFoundMsg(path) == "File not found: " \o path

HeaderPrefix == "# vtk DataFile Version"
HeaderMsg == "Missing or invalid VTK version header"

\* lines[0].startswith("# vtk DataFile Version")
HeaderOk(ls) == StartsWith(PyGet(ls, 0), HeaderPrefix)

HeaderErrors(ls) == IF ~HeaderOk(ls) THEN <<HeaderMsg>> ELSE <<>>

\* the loop that finds the first line starting with CELL_DATA; -1 if none
RECURSIVE FindCellData(_, _)
FindCellData(ls, i) ==
    IF i >= Len(ls) THEN -1
    ELSE IF StartsWith(PyGet(ls, i), "CELL_DATA") THEN i
    ELSE FindCellData(ls, i + 1)

CommentMsgPrefix == "Invalid comment in CELL_DATA section at line "

\* variant: the index as it is, 0-based
LineNumberZeroBased(i) == i

\* the {i+1} of the message
LineNumber(i) == i + 1

\* variant: the whole line, the slice forgotten
ExcerptUntruncated(line) == line

\* the {line[:50]} of the message
Excerpt(line) == Prefix(line, ExcerptLen)

CommentMsg(i, line) ==
    CommentMsgPrefix \o ToString(LineNumber(i)) \o ": " \o Excerpt(line)

\* variant: the preceding line compared as read, strip() forgotten
IsExemptNoStrip(ls, i) == StartsWith(PyGet(ls, i - 1), "LOOKUP_TABLE")

\* lines[i-1].strip().startswith("LOOKUP_TABLE")
IsExempt(ls, i) == StartsWith(Strip(PyGet(ls, i - 1)), "LOOKUP_TABLE")

\* for i in range(cell_data_idx, len(lines)): what the iterations from i on
\* append to errors, in the order they append it
RECURSIVE CommentLoop(_, _)
CommentLoop(ls, i) ==
    IF i >= Len(ls) THEN <<>>
    ELSE LET line == Strip(PyGet(ls, i))
         IN  (IF StartsWith(line, "#") /\ ~IsExempt(ls, i)
              THEN <<CommentMsg(i, line)>>
              ELSE <<>>) \o CommentLoop(ls, i + 1)

\* if cell_data_idx >= 0: the comment loop
CommentCheck(ls, cell_data_idx) ==
    IF cell_data_idx >= 0 THEN CommentLoop(ls, cell_data_idx) ELSE <<>>

required_sections == <<"ASCII", "DATASET", "POINTS", "CELLS", "CELL_TYPES">>

\* lines[:20]
Window(ls) == SubSeq(ls, 1, Min(WindowLen, Len(ls)))

\* for section in required_sections: if section in line: append; what the
\* iterations from the j-th section on append to found_sections
RECURSIVE SectionsInLine(_, _)
SectionsInLine(line, j) ==
    IF j > Len(required_sections) THEN <<>>
    ELSE (IF Contains(line, required_sections[j])
          THEN <<required_sections[j]>>
          ELSE <<>>) \o SectionsInLine(line, j + 1)

\* for line in lines[:20]: the inner loop; found_sections keeps duplicates
RECURSIVE FoundSections(_, _)
FoundSections(win, i) ==
    IF i > Len(win) THEN <<>>
    ELSE SectionsInLine(win[i], 1) \o FoundSections(win, i + 1)

SectionMsg(section) == "Section '" \o section \o "' not found in first 20 lines"

\* x in list
InList(x, list) == \E j \in 1..Len(list) : list[j] = x

\* variant: warnings.insert(0, ...) in place of append
RECURSIVE WarningsPrepended(_, _)
WarningsPrepended(found, j) ==
    IF j > Len(required_sections) THEN <<>>
    ELSE WarningsPrepended(found, j + 1)
             \o (IF ~InList(required_sections[j], found)
                 THEN <<SectionMsg(required_sections[j])>>
                 ELSE <<>>)

\* for section in required_sections: if section not in found_sections:
\* append; what the iterations from the j-th section on append to warnings
RECURSIVE SectionWarnings(_, _)
SectionWarnings(found, j) ==
    IF j > Len(required_sections) THEN <<>>
    ELSE (IF ~InList(required_sections[j], found)
          THEN <<SectionMsg(required_sections[j])>>
          ELSE <<>>) \o SectionWarnings(found, j + 1)

\* variant: the message without the path
NotFoundResultNoPath(path) ==
    [raised |-> FALSE, errors |-> <<"File not found">>, warnings |-> <<>>]

\* return [f"File not found: {filepath}"], []
NotFoundResult(path) ==
    [raised |-> FALSE, errors |-> <<FileNotFoundMsg(path)>>, warnings |-> <<>>]

\* The whole function.  lines[0] of an empty list raises IndexError, which
\* nothing in the function catches: raised is TRUE and no pair is returned.
validate_vtk_file(path, f) ==
    IF ~f.exists THEN NotFoundResult(path)
    ELSE LET lines == Readlines(f.content)
         IN  IF Len(lines) = 0
             THEN [raised |-> TRUE, errors |-> <<>>, warnings |-> <<>>]
             ELSE [raised   |-> FALSE,
                   errors   |-> HeaderErrors(lines)
                                    \o CommentCheck(lines, FindCellData(lines, 0)),
                   warnings |-> SectionWarnings(
                                    FoundSections(Window(lines), 1), 1)]

----------------------------------------------------------------------------
(* The files and paths the specifications draw their inputs from.          *)

NoFile == [exists |-> FALSE, content |-> ""]
FileOf(content) == [exists |-> TRUE, content |-> content]

HeaderLine == "# vtk DataFile Version 3.0"
LongComment ==
    "\t # stray comment, far longer than the fifty characters of an excerpt"

\* line bodies, without their terminators
Library ==
    { HeaderLine, "CELL_DATA 1", "  LOOKUP_TABLE default", LongComment,
      "ASCII", "DATASET POINTS 4 float", "CELLS 1 5", "XCELL_TYPES 1" }

LineSeqs == UNION { [1..n -> Library] : n \in 0..MaxLines }

\* a block of blank lines that moves what follows it to the window's edge
Padding == [i \in 1..(WindowLen - 1) |-> ""]

Padded(ls, p) == SubSeq(ls, 1, p) \o Padding \o SubSeq(ls, p + 1, Len(ls))

Bodies ==
    LineSeqs \cup UNION { { Padded(ls, p) : p \in 0..Min(1, Len(ls)) } :
                          ls \in LineSeqs }

\* the text of a file: its lines, "\n" after each but possibly the last
RECURSIVE Join(_, _)
Join(ls, terminated) ==
    IF Len(ls) = 0 THEN ""
    ELSE IF Len(ls) = 1 THEN Head(ls) \o (IF terminated THEN "\n" ELSE "")
    ELSE Head(ls) \o "\n" \o Join(Tail(ls), terminated)

Contents == { Join(b, t) : b \in Bodies, t \in BOOLEAN }

MissingPaths == {"missing.vtk", "out/none.vtk"}
ExistingPath == "mesh.vtk"

----------------------------------------------------------------------------
(* Spec: validate_vtk_file applied to one path.                            *)

MainIdle ==
    /\ sys_argv = <<>>
    /\ fs = <<>>
    /\ mpc = "idle"
    /\ k = 0
    /\ total_errors = 0
    /\ out = <<>>
    /\ exit_status = -1
    /\ calls = <<>>

Init ==
    /\ \/ filepath \in MissingPaths /\ file = NoFile
       \/ filepath = ExistingPath /\ file \in { FileOf(c) : c \in Contents }
    /\ pc = "call"
    /\ errors = <<>>
    /\ warnings = <<>>
    /\ MainIdle

Validate ==
    /\ pc = "call"
    /\ LET r == validate_vtk_file(filepath, file)
       IN  /\ pc' = IF r.raised THEN "raised" ELSE "returned"
           /\ errors' = r.errors
           /\ warnings' = r.warnings
    /\ UNCHANGED <<filepath, file>>
    /\ UNCHANGED mainVars

Next == Validate

Spec == Init /\ [][Next]_vars

----------------------------------------------------------------------------
(* main                                                                    *)

RECURSIVE Repeat(_, _)
\* c * n
Repeat(c, n) == IF n <= 0 THEN "" ELSE c \o Repeat(c, n - 1)

DashBase == 12
RuleLen == 50

UsageMsg == "Usage: python3 validate_vtk.py <vtk_file> [vtk_file2] ..."

\* sys.argv[1:]
Args == IF Len(sys_argv) = 0 THEN <<>> ELSE Tail(sys_argv)

\* variant: len(sys.argv) < 1, the program name not counted
NoFileArgsOffByOne(argv) == Len(argv) < 1

\* len(sys.argv) < 2
NoFileArgs(argv) == Len(argv) < 2

\* the two prints that open a file's section
SectionHeader(path) ==
    << "\nValidating: " \o path, Repeat("-", DashBase + Len(path)) >>

\* the bulleted lines of a list of findings; the bullet glyph is written *
Bullets(list) == [j \in 1..Len(list) |-> "   * " \o list[j]]

\* if errors: ... else: ...   (the glyphs that open the lines are left out)
ErrorBlock(errs) ==
    IF Len(errs) > 0
    THEN <<"ERRORS (" \o ToString(Len(errs)) \o "):">> \o Bullets(errs)
    ELSE <<"No errors found">>

\* if warnings: ...
WarningBlock(warns) ==
    IF Len(warns) > 0
    THEN <<"WARNINGS (" \o ToString(Len(warns)) \o "):">> \o Bullets(warns)
    ELSE <<>>

\* variant: INVALID only from the second error on
StatusLineFromCount(errs) ==
    "Status: " \o (IF Len(errs) > 1 THEN "INVALID" ELSE "VALID")

\* print(f"Status: {'INVALID' if errors else 'VALID'}")
StatusLine(errs) ==
    "Status: " \o (IF Len(errs) > 0 THEN "INVALID" ELSE "VALID")

\* variant: total_errors += 1 for a file with errors
AddErrorsCountsFiles(total, errs) ==
    IF Len(errs) > 0 THEN total + 1 ELSE total

\* if errors: total_errors += len(errors)
AddErrors(total, errs) ==
    IF Len(errs) > 0 THEN total + Len(errs) ELSE total

\* the four prints after the loop
SummaryLines(n, total) ==
    << "\n" \o Repeat("=", RuleLen),
       "Total files validated: " \o ToString(n),
       "Total errors: " \o ToString(total),
       "Overall result: " \o (IF total > 0 THEN "FAILED" ELSE "PASSED") >>

\* return 1 if total_errors > 0 else 0, handed to sys.exit
ReturnCode(total) == IF total > 0 THEN 1 ELSE 0

ValidFile ==
    Join(<< HeaderLine, "ASCII", "DATASET POLYDATA", "POINTS 4 float",
            "CELLS 1 5", "CELL_TYPES 1", "CELL_DATA 1",
            "LOOKUP_TABLE default", "# this is fine" >>, TRUE)

MainContents ==
    { "", ValidFile, HeaderLine \o "\n", "DATASET POLYDATA\n",
      "CELL_DATA 1\n1.0\n# stray comment\n" }

MainFiles == {NoFile} \cup { FileOf(c) : c \in MainContents }
MainPaths == {"a.vtk", "out/b.vtk"}
ProgramName == "validate_vtk.py"

ArgLists == UNION { [1..n -> MainPaths] : n \in 0..MaxArgs }

ValIdle ==
    /\ filepath = ""
    /\ file = NoFile
    /\ pc = "idle"
    /\ errors = <<>>
    /\ warnings = <<>>

InitMain ==
    /\ ValIdle
    /\ sys_argv \in { <<ProgramName>> \o a : a \in ArgLists }
    /\ fs \in [MainPaths -> MainFiles]
    /\ mpc = "start"
    /\ k = 0
    /\ total_errors = 0
    /\ out = <<>>
    /\ exit_status = -1
    /\ calls = <<>>

\* if len(sys.argv) < 2: print the usage, sys.exit(1)
Usage ==
    /\ mpc = "start"
    /\ NoFileArgs(sys_argv)
    /\ out' = Append(out, UsageMsg)
    /\ exit_status' = 1
    /\ mpc' = "exit"
    /\ UNCHANGED <<sys_argv, fs, k, total_errors, calls>>
    /\ UNCHANGED valVars

\* total_errors = 0, and into the loop
Begin ==
    /\ mpc = "start"
    /\ ~NoFileArgs(sys_argv)
    /\ total_errors' = 0
    /\ mpc' = "loop"
    /\ UNCHANGED <<sys_argv, fs, k, out, exit_status, calls>>
    /\ UNCHANGED valVars

\* one iteration of the loop, validate_vtk_file returning its pair
FileReturns ==
    /\ mpc = "loop"
    /\ k < Len(Args)
    /\ LET path == Args[k + 1]
           r == validate_vtk_file(path, fs[path])
       IN  /\ ~r.raised
           /\ calls' = Append(calls, path)
           /\ out' = out \o SectionHeader(path) \o ErrorBlock(r.errors)
                         \o WarningBlock(r.warnings) \o <<StatusLine(r.errors)>>
           /\ total_errors' = AddErrors(total_errors, r.errors)
    /\ k' = k + 1
    /\ UNCHANGED <<sys_argv, fs, mpc, exit_status>>
    /\ UNCHANGED valVars

\* one iteration of the loop, validate_vtk_file raising: nothing catches the
\* exception, the interpreter prints the traceback to standard error and
\* the process ends with status 1
FileRaises ==
    /\ mpc = "loop"
    /\ k < Len(Args)
    /\ LET path == Args[k + 1]
           r == validate_vtk_file(path, fs[path])
       IN  /\ r.raised
           /\ calls' = Append(calls, path)
           /\ out' = out \o SectionHeader(path)
    /\ exit_status' = 1
    /\ mpc' = "crashed"
    /\ UNCHANGED <<sys_argv, fs, k, total_errors>>
    /\ UNCHANGED valVars

\* the loop is over: the summary, then sys.exit(main())
Summary ==
    /\ mpc = "loop"
    /\ k = Len(Args)
    /\ out' = out \o SummaryLines(Len(Args), total_errors)
    /\ exit_status' = ReturnCode(total_errors)
    /\ mpc' = "exit"
    /\ UNCHANGED <<sys_argv, fs, k, total_errors, calls>>
    /\ UNCHANGED valVars

NextMain == Usage \/ Begin \/ FileReturns \/ FileRaises \/ Summary

SpecMain == InitMain /\ [][NextMain]_vars

----------------------------------------------------------------------------
(* What the claims speak of, stated from the file and the result alone.    *)

\* the lines of the file validate_vtk_file was given, 1-based
Lines == Readlines(file.content)

\* validate_vtk_file has returned its pair for an existing file
Returned == pc = "returned" /\ file.exists

\* validate_vtk_file has ended, by return or by exception, on an existing file
Ended == pc \in {"returned", "raised"} /\ file.exists

Count(list, x) == Cardinality({ j \in 1..Len(list) : list[j] = x })

IsCommentError(e) ==
    StartsWith(e, "Invalid comment in CELL_DATA section at line ")

CommentErrorAt(e, n) ==
    StartsWith(e, "Invalid comment in CELL_DATA section at line "
                      \o ToString(n) \o ":")

\* the 1-based line numbers the comment errors report, ls being the lines
ReportedLines(ls) ==
    { n \in 0..(Len(ls) + 1) :
          \E j \in 1..Len(errors) : CommentErrorAt(errors[j], n) }

HasCellData(ls) == \E n \in 1..Len(ls) : StartsWith(ls[n], "CELL_DATA")

\* the 1-based number of the first line that starts with CELL_DATA
FirstCellData(ls) ==
    CHOOSE n \in 1..Len(ls) :
        /\ StartsWith(ls[n], "CELL_DATA")
        /\ \A m \in 1..(n - 1) : ~StartsWith(ls[m], "CELL_DATA")

IsCommentLine(ls, n) == StartsWith(Strip(ls[n]), "#")

\* the line before line n exists and, stripped, starts with LOOKUP_TABLE
AfterLookupTable(ls, n) ==
    n > 1 /\ StartsWith(Strip(ls[n - 1]), "LOOKUP_TABLE")

ExpectedLines(ls) ==
    IF HasCellData(ls)
    THEN { n \in FirstCellData(ls)..Len(ls) :
               IsCommentLine(ls, n) /\ ~AfterLookupTable(ls, n) }
    ELSE {}

Keywords == <<"ASCII", "DATASET", "POINTS", "CELLS", "CELL_TYPES">>

WarningFor(j) == "Section '" \o Keywords[j] \o "' not found in first 20 lines"

\* keyword j is a substring of one of the first 20 lines
InFirstTwenty(ls, j) ==
    \E n \in 1..Min(20, Len(ls)) : Contains(ls[n], Keywords[j])

\* the number a comment error reports
LineOf(ls, e) == CHOOSE n \in 0..(Len(ls) + 1) : CommentErrorAt(e, n)

\* the position in Keywords of the keyword a warning names
KeywordOf(w) == CHOOSE j \in 1..Len(Keywords) : w = WarningFor(j)

----------------------------------------------------------------------------
(* Claims about validate_vtk_file, checked under Spec.                     *)

\* C1: for every readable file, the empty file included, validate_vtk_file
\* returns a pair instead of raising, and for the empty file the errors
\* hold "Missing or invalid VTK version header".
C1_ReturnsForEveryReadableFile ==
    Ended =>
        /\ pc = "returned"
        /\ (file.content = ""
               => InList("Missing or invalid VTK version header", errors))

\* C2: with a first CELL_DATA line, the line numbers the comment errors
\* report are exactly those of the lines at or after it that, stripped,
\* start with "#" and do not follow a line that, stripped, starts with
\* LOOKUP_TABLE (the first line of the file follows no line); with no
\* CELL_DATA line there is no comment error at all.
C2_CommentLinesExact ==
    Returned =>
        LET ls == Lines
            expected == ExpectedLines(ls)
        IN  /\ ReportedLines(ls) = expected
            /\ \A j \in 1..Len(errors) :
                   IsCommentError(errors[j]) => LineOf(ls, errors[j]) \in expected

C2_Witness ==
    /\ Returned
    /\ LET ls == Lines
       IN  /\ HasCellData(ls)
           /\ ReportedLines(ls) # {}
           /\ \E n \in 1..Len(ls) :
                  IsCommentLine(ls, n) /\ n \notin ReportedLines(ls)

\* C3: for every existing file, the errors hold "Missing or invalid VTK
\* version header" if and only if the first line of the file does not
\* start with "# vtk DataFile Version".
C3_HeaderErrorIff ==
    Ended =>
        (InList("Missing or invalid VTK version header", errors)
            <=> ~StartsWith(file.content, "# vtk DataFile Version"))

\* C4: for each of the five keywords there is exactly one warning naming
\* it when it is a substring of none of the first 20 lines, and none when
\* it is a substring of one of them.
C4_OneWarningPerMissingKeyword ==
    Ended =>
        LET ls == Lines
        IN  \A j \in 1..Len(Keywords) :
                Count(warnings, WarningFor(j))
                    = IF InFirstTwenty(ls, j) THEN 0 ELSE 1

\* C5: where no file exists, validate_vtk_file returns exactly the one
\* error "File not found: {path}" and no warning.
C5_FileNotFound ==
    (pc \in {"returned", "raised"} /\ ~file.exists) =>
        /\ pc = "returned"
        /\ errors = <<"File not found: " \o filepath>>
        /\ warnings = <<>>

C5_Witness == pc = "returned" /\ ~file.exists /\ Len(errors) = 1

C10_ResultOrder ==
    Returned =>
        /\ \A i, j \in 1..Len(errors) :
               (errors[i] = "Missing or invalid VTK version header"
                    /\ IsCommentError(errors[j])) => i < j
        /\ LET ls == Lines
           IN  \A i, j \in 1..Len(errors) :
                   (i < j /\ IsCommentError(errors[i])
                          /\ IsCommentError(errors[j]))
                       => LineOf(ls, errors[i]) < LineOf(ls, errors[j])
        /\ \A i \in 1..Len(warnings) :
               \E j \in 1..Len(Keywords) : warnings[i] = WarningFor(j)
        /\ \A i, j \in 1..Len(warnings) :
               i < j => KeywordOf(warnings[i]) < KeywordOf(warnings[j])

C10_Witness ==
    /\ Returned
    /\ InList("Missing or invalid VTK version header", errors)
    /\ Cardinality(ReportedLines(Lines)) >= 2
    /\ Len(warnings) >= 2

----------------------------------------------------------------------------
(* Claims about main, checked under SpecMain.                              *)

\* what validate_vtk_file gives for the j-th file argument
ResultOf(j) == validate_vtk_file(Args[j], fs[Args[j]])

\* the sum of the lengths of the error lists of the first j file arguments
RECURSIVE SumErrors(_)
SumErrors(j) ==
    IF j = 0 THEN 0 ELSE SumErrors(j - 1) + Len(ResultOf(j).errors)

IsStatusLine(s) == StartsWith(s, "Status: ")

\* the run went through all its N >= 1 files and ended
SummaryDone == mpc = "exit" /\ Len(Args) >= 1

\* C6: after all N >= 1 files are processed, "Total files validated" is N,
\* "Total errors" is the sum of the lengths of the files' error lists, the
\* overall result is FAILED exactly when the sum is above 0, and the exit
\* status is 0 exactly when the sum is 0, and 1 otherwise.
C6_Aggregate ==
    SummaryDone =>
        LET n == Len(Args)
            s == SumErrors(n)
            m == Len(out)
        IN  /\ m >= 4
            /\ out[m - 2] = "Total files validated: " \o ToString(n)
            /\ out[m - 1] = "Total errors: " \o ToString(s)
            /\ out[m] = "Overall result: "
                            \o (IF s > 0 THEN "FAILED" ELSE "PASSED")
            /\ exit_status = IF s = 0 THEN 0 ELSE 1

C6_Witness ==
    /\ SummaryDone
    /\ Len(Args) = 2
    /\ SumErrors(2) = 2
    /\ \E j \in 1..2 : Len(ResultOf(j).errors) = 0

\* C7: the status printed for a file is INVALID exactly when its error
\* list is non-empty and VALID otherwise, and neither it, nor the running
\* total of errors, nor the exit status depends on the warnings.
C7_StatusFromErrorsOnly ==
    mpc \in {"loop", "exit", "crashed"} =>
        LET printed == SelectSeq(out, IsStatusLine)
        IN  /\ Len(printed) = k
            /\ \A j \in 1..k :
                   printed[j] = IF Len(ResultOf(j).errors) > 0
                                THEN "Status: INVALID"
                                ELSE "Status: VALID"
            /\ total_errors = SumErrors(k)
            /\ SummaryDone => exit_status = IF SumErrors(k) > 0 THEN 1 ELSE 0

C7_Witness ==
    /\ SummaryDone
    /\ exit_status = 0
    /\ \E j \in 1..k :
           /\ Len(ResultOf(j).warnings) > 0
           /\ Len(ResultOf(j).errors) = 0

\* C9: with no file argument main prints the usage message and nothing
\* else, exits with status 1, and never calls validate_vtk_file.
C9_UsageOnly ==
    (Len(sys_argv) = 1 /\ mpc # "start") =>
        /\ mpc = "exit"
        /\ out = <<UsageMsg>>
        /\ exit_status = 1
        /\ calls = <<>>

C9_Witness == Len(sys_argv) = 1 /\ mpc = "exit" /\ exit_status = 1

====
